---- MODULE Spec2Model ----
(***************************************************************************)
(* A model of retryxx (retryxx/retryxx_retry.h): BackoffPolicy::getDelay,  *)
(* detail::interruptibleSleep, stop_token / stop_source and the retry()    *)
(* control loop, together with a second thread that may call               *)
(* stop_source::request_stop() at any moment.                              *)
(*                                                                         *)
(* Durations are whole milliseconds.  The floating-point multiplier is     *)
(* kept in tenths (15 stands for 1.5), so that static_cast<long long> is   *)
(* an integer division by ten.  All durations of the model are far below   *)
(* 2^63, so the 64-bit arithmetic of std::chrono never wraps here.         *)
(***************************************************************************)
EXTENDS Integers, Sequences, FiniteSets, TLC

\* ------------------------------------------------------------------ bounds

\* maxAttempts ranges over -1 .. MaxAttemptsBound
MaxAttemptsBound == 3
\* the largest maxDelay of the policies tried
MaxDelayBound == 25

\* ------------------------------------------------------- program constants

\* auto sleepIncrement = std::chrono::milliseconds (10)
SleepIncrement == 10

\* ----------------------------------------------------------------- inputs

\* values the operation may return, descriptions (what()) of the
\* std::exception errors it may raise, and of those a predicate may raise
Values == {"v1", "v2"}
Descs == {"e1", "e2"}
PredDescs == {"p1"}

NoValue == ""
\* the description of an error that is no std::exception: it has none
Undescribed == ""
NoExc == [what |-> "", from |-> ""]

InitialDelays == {0, 6, 15}
\* multipliers in tenths: 0.5, 1.0, 1.5, 2.0
Multipliers == {5, 10, 15, 20}
MaxDelays == {10, MaxDelayBound}

Policies ==
    [initialDelay : InitialDelays, multiplier : Multipliers, maxDelay : MaxDelays]

VARIABLES
    maxAttempts,    \* retry(): int maxAttempts
    backoffPolicy,  \* retry(): BackoffPolicy backoffPolicy
    hasSource,      \* the stop_token passed to retry() belongs to a stop_source
    stopped,        \* stop_source::stopped, the shared atomic flag
    pc,             \* where the thread running retry() is
    attempts,       \* retry(): the loop variable
    currentDelay,   \* getDelay(): the pre-jitter delay, until its caller uses the result
    duration,       \* interruptibleSleep(): the requested duration
    remaining,      \* interruptibleSleep(): remaining
    result,         \* retry(): ResultType result
    exc,            \* retry(): the caught exception e
    outcome,        \* what retry() returned (or that it threw)
    invocations,    \* history: calls of func so far
    waits,          \* history: calls of interruptibleSleep so far
    delayCalls,     \* history: calls of getDelay so far
    log,            \* history: how each judged attempt ended
    consulted,      \* history: the predicates called in the current attempt
    stopPhase,      \* history: where retry() was when request_stop() took effect
    entryStopped,   \* history: stop_requested() at the entry of the current wait
    waitIncs,       \* history: sleep_for increments begun in the current wait
    waitSlept,      \* history: time slept in the current wait
    stopBegins,     \* history: sleep_for calls of the current wait begun with the flag set
    stopIncs        \* history: sleep_for calls of the current wait ended with the flag set

vars == <<maxAttempts, backoffPolicy, hasSource, stopped, pc, attempts,
          currentDelay, duration, remaining, result, exc, outcome,
          invocations, waits, delayCalls, log, consulted, stopPhase,
          entryStopped, waitIncs, waitSlept, stopBegins, stopIncs>>

\* ------------------------------------------------------------- stop_token

\* a variant of StopPossible that takes every token to have a stop source
StopPossible_Always == TRUE

\* stop_token::stop_possible()
StopPossible == hasSource

\* stop_token::stop_requested()
StopRequested == hasSource /\ stopped

\* ---------------------------------------------------------- BackoffPolicy

Min(a, b) == IF a < b THEN a ELSE b

\* static_cast<long long> (multiplier), the multiplier being in tenths
Truncated(multiplier) == multiplier \div 10

\* one pass of the loop body of getDelay
GrowOnce(delay, policy) ==
    Min(delay * Truncated(policy.multiplier), policy.maxDelay)

RECURSIVE GrowFrom(_, _, _, _)
\* the loop of getDelay: for (int i = 0; i < attempt - 1; ++i)
GrowFrom(delay, i, attempt, policy) ==
    IF i < attempt - 1
    THEN GrowFrom(GrowOnce(delay, policy), i + 1, attempt, policy)
    ELSE delay

\* getDelay(): currentDelay when the loop has ended
PreJitterDelay(policy, attempt) ==
    GrowFrom(policy.initialDelay, 0, attempt, policy)

\* std::uniform_int_distribution<long long> dist (0, currentDelay.count())
JitterRange(delay) == 0 .. delay

\* ---------------------------------------------------------------- outcomes

NoOutcome == [kind |-> "none", msg |-> "", value |-> NoValue, what |-> "", n |-> 0]

\* return result;
SuccessOutcome(v) ==
    [kind |-> "success", msg |-> "", value |-> v, what |-> "", n |-> 0]

\* return unexpected ("Retry operation was cancelled during backoff.");
CancelledOutcome ==
    [kind |-> "failure", msg |-> "Retry operation was cancelled during backoff.",
     value |-> NoValue, what |-> "", n |-> 0]

\* a variant of ExceptionOutcome that leaves e.what() out of the message
ExceptionOutcome_NoText(what) ==
    [kind |-> "failure", msg |-> "Retry failed with exception: {}",
     value |-> NoValue, what |-> "", n |-> 0]

\* return unexpected (std::format ("Retry failed with exception: {}", e.what()));
ExceptionOutcome(what) ==
    [kind |-> "failure", msg |-> "Retry failed with exception: {}",
     value |-> NoValue, what |-> what, n |-> 0]

\* a variant of ExhaustedOutcome that formats the last loop index, not maxAttempts
ExhaustedOutcome_LastIndex(n) ==
    [kind |-> "failure", msg |-> "Retry failed after {} attempts.",
     value |-> NoValue, what |-> "", n |-> n - 1]

\* return unexpected (std::format ("Retry failed after {} attempts.", maxAttempts));
ExhaustedOutcome(n) ==
    [kind |-> "failure", msg |-> "Retry failed after {} attempts.",
     value |-> NoValue, what |-> "", n |-> n]

\* an exception left retry(): no handler of retry() caught it.  what is its
\* description, Undescribed when it is no std::exception
ThrownOutcome(what) ==
    [kind |-> "thrown", msg |-> "", value |-> NoValue, what |-> what, n |-> 0]

\* ------------------------------------------------------------------- Init

Init ==
    /\ maxAttempts \in -1 .. MaxAttemptsBound
    /\ backoffPolicy \in Policies
    /\ hasSource \in BOOLEAN
    /\ stopped = FALSE
    /\ pc = "loop"
    /\ attempts = 0
    /\ currentDelay = 0
    /\ duration = 0
    /\ remaining = 0
    /\ result = NoValue
    /\ exc = NoExc
    /\ outcome = NoOutcome
    /\ invocations = 0
    /\ waits = 0
    /\ delayCalls = 0
    /\ log = <<>>
    /\ consulted = {}
    /\ stopPhase = "none"
    /\ entryStopped = FALSE
    /\ waitIncs = 0
    /\ waitSlept = 0
    /\ stopBegins = 0
    /\ stopIncs = 0

\* ------------------------------------------------------- the retry() loop

policyVars == <<maxAttempts, backoffPolicy, hasSource>>
sleepVars == <<currentDelay, duration, remaining, entryStopped, waitIncs,
               waitSlept, stopBegins, stopIncs>>
historyVars == <<invocations, waits, delayCalls, log, consulted>>

\* a variant of LoopCond with an inclusive bound: attempts <= maxAttempts
LoopCond_Inclusive(a, n) == a <= n

\* attempts < maxAttempts
LoopCond(a, n) == a < n

\* a variant of NeedsWait that waits before the first attempt too
NeedsWait_Always(a) == a >= 0

\* if (attempts > 0)
NeedsWait(a) == a > 0

\* a variant of Loop that polls the token at the head of every iteration
Loop_PollsToken ==
    /\ pc = "loop"
    /\ IF StopRequested
       THEN /\ pc' = "done"
            /\ outcome' = CancelledOutcome
            /\ UNCHANGED consulted
       ELSE IF LoopCond(attempts, maxAttempts)
       THEN /\ pc' = IF NeedsWait(attempts) THEN "getDelay" ELSE "invoke"
            /\ consulted' = {}
            /\ UNCHANGED outcome
       ELSE /\ pc' = "done"
            /\ outcome' = ExhaustedOutcome(maxAttempts)
            /\ UNCHANGED consulted
    /\ UNCHANGED <<policyVars, stopped, attempts, sleepVars, result, exc,
                   invocations, waits, delayCalls, log, stopPhase>>

\* the head of the for loop: its condition, then the branch on attempts > 0
Loop ==
    /\ pc = "loop"
    /\ IF LoopCond(attempts, maxAttempts)
       THEN /\ pc' = IF NeedsWait(attempts) THEN "getDelay" ELSE "invoke"
            /\ consulted' = {}
            /\ UNCHANGED outcome
       ELSE /\ pc' = "done"
            /\ outcome' = ExhaustedOutcome(maxAttempts)
            /\ UNCHANGED consulted
    /\ UNCHANGED <<policyVars, stopped, attempts, sleepVars, result, exc,
                   invocations, waits, delayCalls, log, stopPhase>>

\* backoffPolicy.getDelay (attempts)
GetDelay ==
    /\ pc = "getDelay"
    /\ currentDelay' = PreJitterDelay(backoffPolicy, attempts)
    /\ \E d \in JitterRange(currentDelay') : duration' = d
    /\ delayCalls' = delayCalls + 1
    /\ pc' = "sleepEntry"
    /\ UNCHANGED <<policyVars, stopped, attempts, remaining, entryStopped,
                   waitIncs, waitSlept, stopBegins, stopIncs, result, exc,
                   outcome, invocations, waits, log, consulted, stopPhase>>

\* ------------------------------------------- detail::interruptibleSleep

\* a variant of SleepLoopCond that does not read the flag
SleepLoopCond_IgnoresFlag(rem, requested) == rem > 0

\* while (remaining > 0 && ! stopToken.stop_requested())
SleepLoopCond(rem, requested) == rem > 0 /\ ~requested

\* a variant of SleepTime that always sleeps a whole increment
SleepTime_NoMin(rem) == SleepIncrement

\* auto sleepTime = std::min (sleepIncrement, remaining)
SleepTime(rem) == Min(SleepIncrement, rem)

\* the entry of interruptibleSleep.  Without a stop source it is the one
\* call sleep_for (duration), which leaves it at return false; with one,
\* remaining = duration
SleepEntry ==
    /\ pc = "sleepEntry"
    /\ waits' = waits + 1
    /\ currentDelay' = 0
    /\ stopBegins' = 0
    /\ stopIncs' = 0
    /\ IF ~StopPossible
       THEN /\ pc' = "sleepFalse"
            /\ waitIncs' = 1
            /\ waitSlept' = duration
            /\ UNCHANGED <<remaining, entryStopped>>
       ELSE /\ pc' = "sleepLoop"
            /\ remaining' = duration
            /\ entryStopped' = StopRequested
            /\ waitIncs' = 0
            /\ waitSlept' = 0
    /\ UNCHANGED <<policyVars, stopped, attempts, duration, result, exc,
                   outcome, invocations, delayCalls, log, consulted, stopPhase>>

\* return false; of the branch without a stop source
SleepReturnFalse ==
    /\ pc = "sleepFalse"
    /\ pc' = "invoke"
    /\ duration' = 0
    /\ waitIncs' = 0
    /\ waitSlept' = 0
    /\ UNCHANGED <<policyVars, stopped, attempts, currentDelay, remaining,
                   entryStopped, stopBegins, stopIncs, result, exc, outcome,
                   historyVars, stopPhase>>

\* the while condition: one read of remaining and one of the flag
SleepCheck ==
    /\ pc = "sleepLoop"
    /\ pc' = IF SleepLoopCond(remaining, StopRequested) THEN "sleepCall" ELSE "sleepRet"
    /\ UNCHANGED <<policyVars, stopped, attempts, sleepVars, result, exc,
                   outcome, historyVars, stopPhase>>

\* std::this_thread::sleep_for (sleepTime) begins
SleepBegin ==
    /\ pc = "sleepCall"
    /\ pc' = "sleeping"
    /\ waitIncs' = waitIncs + 1
    /\ stopBegins' = IF stopped THEN stopBegins + 1 ELSE stopBegins
    /\ UNCHANGED <<policyVars, stopped, attempts, currentDelay, duration,
                   remaining, entryStopped, waitSlept, stopIncs, result, exc,
                   outcome, historyVars, stopPhase>>

\* sleep_for returns; remaining -= sleepTime
SleepEnd ==
    /\ pc = "sleeping"
    /\ remaining' = remaining - SleepTime(remaining)
    /\ waitSlept' = waitSlept + SleepTime(remaining)
    /\ stopIncs' = IF stopped THEN stopIncs + 1 ELSE stopIncs
    /\ pc' = "sleepLoop"
    /\ UNCHANGED <<policyVars, stopped, attempts, currentDelay, duration,
                   entryStopped, waitIncs, stopBegins, result, exc, outcome,
                   historyVars, stopPhase>>

\* return stopToken.stop_requested(): a second read of the flag.  true makes
\* retry() return the cancellation failure, false lets it go on to func
SleepReturn ==
    /\ pc = "sleepRet"
    /\ IF StopRequested
       THEN /\ pc' = "done"
            /\ outcome' = CancelledOutcome
            /\ UNCHANGED sleepVars
       ELSE /\ pc' = "invoke"
            /\ duration' = 0
            /\ remaining' = 0
            /\ entryStopped' = FALSE
            /\ waitIncs' = 0
            /\ waitSlept' = 0
            /\ UNCHANGED <<currentDelay, outcome, stopBegins, stopIncs>>
    /\ UNCHANGED <<policyVars, stopped, attempts, result, exc, historyVars,
                   stopPhase>>

\* --------------------------------------------- the operation and its judges

\* std::invoke (std::forward<F> (func)) is entered
Invoke ==
    /\ pc = "invoke"
    /\ pc' = "running"
    /\ invocations' = invocations + 1
    /\ UNCHANGED <<policyVars, stopped, attempts, sleepVars, result, exc,
                   outcome, waits, delayCalls, log, consulted, stopPhase>>

\* func returns a value: ResultType result = ...
OpReturns ==
    /\ pc = "running"
    /\ \E v \in Values : result' = v
    /\ pc' = "judgeResult"
    /\ UNCHANGED <<policyVars, stopped, attempts, sleepVars, exc, outcome,
                   historyVars, stopPhase>>

\* func raises an error derived from std::exception: the catch clause takes it
OpRaises ==
    /\ pc = "running"
    /\ \E w \in Descs : exc' = [what |-> w, from |-> "func"]
    /\ pc' = "judgeError"
    /\ UNCHANGED <<policyVars, stopped, attempts, sleepVars, result, outcome,
                   historyVars, stopPhase>>

\* func raises something that is no std::exception: no clause of retry()
\* matches, and it leaves retry()
OpRaisesOther ==
    /\ pc = "running"
    /\ pc' = "done"
    /\ outcome' = ThrownOutcome(Undescribed)
    /\ log' = Append(log, "thrown")
    /\ UNCHANGED <<policyVars, stopped, attempts, sleepVars, result, exc,
                   invocations, waits, delayCalls, consulted, stopPhase>>

\* if (! shouldRetryPredicate (result)) return result;  The call is inside
\* the try block, so a std::exception the predicate raises reaches the
\* catch clause like one of func
JudgeResult ==
    /\ pc = "judgeResult"
    /\ consulted' = consulted \cup {"result"}
    /\ \/ /\ pc' = "loop"
          /\ attempts' = attempts + 1
          /\ log' = Append(log, "result-retry")
          /\ result' = NoValue
          /\ UNCHANGED <<exc, outcome>>
       \/ /\ pc' = "done"
          /\ outcome' = SuccessOutcome(result)
          /\ log' = Append(log, "accept")
          /\ UNCHANGED <<attempts, result, exc>>
       \/ /\ pc' = "judgeError"
          /\ \E w \in PredDescs : exc' = [what |-> w, from |-> "predicate"]
          /\ UNCHANGED <<attempts, result, outcome, log>>
       \/ /\ pc' = "done"
          /\ outcome' = ThrownOutcome(Undescribed)
          /\ log' = Append(log, "thrown")
          /\ UNCHANGED <<attempts, result, exc>>
    /\ UNCHANGED <<policyVars, stopped, sleepVars, invocations, waits,
                   delayCalls, stopPhase>>

\* catch (const std::exception& e): if (! shouldRetryExceptionPredicate (e))
\* return unexpected (...).  An error the predicate raises is raised inside
\* the handler and leaves retry()
JudgeError ==
    /\ pc = "judgeError"
    /\ consulted' = consulted \cup {"error"}
    /\ \/ /\ pc' = "loop"
          /\ attempts' = attempts + 1
          /\ log' = Append(log, "error-retry")
          /\ exc' = NoExc
          /\ result' = NoValue
          /\ UNCHANGED outcome
       \/ /\ pc' = "done"
          /\ outcome' = ExceptionOutcome(exc.what)
          /\ log' = Append(log, "fatal")
          /\ UNCHANGED <<attempts, result, exc>>
       \/ /\ pc' = "done"
          /\ \E w \in PredDescs \cup {Undescribed} : outcome' = ThrownOutcome(w)
          /\ log' = Append(log, "thrown")
          /\ UNCHANGED <<attempts, result, exc>>
    /\ UNCHANGED <<policyVars, stopped, sleepVars, invocations, waits,
                   delayCalls, stopPhase>>

\* ------------------------------------------------------------ stop_source

\* where the thread in retry() is, as seen by a request_stop() that takes
\* effect now
Phase ==
    CASE pc = "done" -> "done"
      [] pc = "running" -> "func"
      [] pc \in {"judgeResult", "judgeError"} -> "judge"
      [] pc \in {"sleepFalse", "sleepLoop", "sleepCall", "sleeping", "sleepRet"} -> "wait"
      [] attempts = 0 -> "start"
      [] pc = "invoke" -> "afterWait"
      [] OTHER -> "beforeWait"

\* a variant of RequestStop that flips the flag: a second call withdraws the request
RequestStop_Toggles ==
    /\ hasSource
    /\ stopped' = ~stopped
    /\ stopPhase' = IF stopped THEN stopPhase ELSE Phase
    /\ UNCHANGED <<policyVars, pc, attempts, sleepVars, result, exc, outcome,
                   historyVars>>

\* stop_source::request_stop() on another thread: stopped.store (true)
RequestStop ==
    /\ hasSource
    /\ stopped' = TRUE
    /\ stopPhase' = IF stopped THEN stopPhase ELSE Phase
    /\ UNCHANGED <<policyVars, pc, attempts, sleepVars, result, exc, outcome,
                   historyVars>>

\* ------------------------------------------------------- the specification

Next ==
    \/ Loop
    \/ GetDelay
    \/ SleepEntry
    \/ SleepReturnFalse
    \/ SleepCheck
    \/ SleepBegin
    \/ SleepEnd
    \/ SleepReturn
    \/ Invoke
    \/ OpReturns
    \/ OpRaises
    \/ OpRaisesOther
    \/ JudgeResult
    \/ JudgeError
    \/ RequestStop

Spec == Init /\ [][Next]_vars

TypeOK ==
    /\ pc \in {"loop", "getDelay", "sleepEntry", "sleepFalse", "sleepLoop", "sleepCall",
               "sleeping", "sleepRet", "invoke", "running", "judgeResult",
               "judgeError", "done"}
    /\ attempts \in 0 .. MaxAttemptsBound
    /\ remaining \in 0 .. duration
    /\ outcome.kind \in {"none", "success", "failure", "thrown"}

\* ------------------------------------------------------ claims: vocabulary

IsRetry(verdict) == verdict \in {"result-retry", "error-retry"}

\* every attempt judged so far ended in a retry verdict
AllRetry == \A i \in 1 .. Len(log) : IsRetry(log[i])

\* how the last judged attempt ended
LastVerdict == IF log = <<>> THEN "none" ELSE log[Len(log)]

\* the four shapes of what retry() returns, field by field
IsSuccess(o, v) == o.kind = "success" /\ o.value = v

IsCancellation(o) ==
    o.kind = "failure" /\ o.msg = "Retry operation was cancelled during backoff."

IsTerminalFailure(o, what) ==
    o.kind = "failure" /\ o.msg = "Retry failed with exception: {}" /\ o.what = what

IsExhaustion(o, n) ==
    o.kind = "failure" /\ o.msg = "Retry failed after {} attempts." /\ o.n = n

RECURSIVE Pow(_, _)
Pow(b, e) == IF e <= 0 THEN 1 ELSE b * Pow(b, e - 1)

\* ----------------------------------------------------------------- C1

\* C1: with maxAttempts = N >= 1 and no cancellation, once N attempts have
\* all ended in a retry verdict (of either predicate, in any mix), func has
\* been invoked exactly N times, exactly N-1 waits were made, nothing more is
\* started, and what retry() returns is the exhaustion failure citing N.
C1_Exhaustion ==
    (maxAttempts >= 1 /\ ~stopped /\ Len(log) = maxAttempts /\ AllRetry)
        => /\ invocations = maxAttempts
           /\ waits = maxAttempts - 1
           /\ pc \in {"loop", "done"}
           /\ (pc = "done" => IsExhaustion(outcome, maxAttempts))

C1_Witness ==
    /\ pc = "done"
    /\ ~stopped
    /\ maxAttempts = 3
    /\ log = <<"error-retry", "error-retry", "result-retry">>
    /\ invocations = 3
    /\ waits = 2
    /\ IsExhaustion(outcome, 3)

\* ----------------------------------------------------------------- C2

\* C2: without cancellation, when the k-th invocation is the first whose
\* value the result predicate accepts, retry() has returned, after exactly k
\* invocations and k-1 waits, success carrying the value func returned.
C2_FirstAccept ==
    (~stopped /\ LastVerdict = "accept")
        => /\ pc = "done"
           /\ invocations = Len(log)
           /\ waits = Len(log) - 1
           /\ result \in Values
           /\ IsSuccess(outcome, result)
           /\ \A i \in 1 .. Len(log) - 1 : IsRetry(log[i])

C2_Witness ==
    /\ pc = "done"
    /\ ~stopped
    /\ log = <<"error-retry", "accept">>
    /\ invocations = 2
    /\ waits = 1
    /\ IsSuccess(outcome, "v2")

\* ----------------------------------------------------------------- C3

\* C3: without cancellation, when the k-th invocation raises an error the
\* error predicate marks non-retryable, retry() has returned, after exactly k
\* invocations and k-1 waits, the failure whose message embeds that error's
\* description: not the exhaustion failure, not the cancellation failure.
C3_FatalError ==
    (~stopped /\ LastVerdict = "fatal" /\ exc.from = "func")
        => /\ pc = "done"
           /\ invocations = Len(log)
           /\ waits = Len(log) - 1
           /\ exc.what \in Descs
           /\ IsTerminalFailure(outcome, exc.what)
           /\ ~IsExhaustion(outcome, maxAttempts)
           /\ ~IsCancellation(outcome)

C3_Witness ==
    /\ pc = "done"
    /\ ~stopped
    /\ log = <<"result-retry", "fatal">>
    /\ exc = [what |-> "e2", from |-> "func"]
    /\ invocations = 2
    /\ waits = 1
    /\ IsTerminalFailure(outcome, "e2")

\* ----------------------------------------------------------------- C4

\* C4: with a token of a stop source, a wait entered after cancellation was
\* requested begins no sleep increment and sleeps no time, whatever its
\* duration, it can only return true, and retry() then returns the
\* cancellation failure with func invoked no further time.
C4_CancelledBeforeWait ==
    (hasSource /\ entryStopped)
        => /\ pc \in {"sleepLoop", "sleepRet", "done"}
           /\ waitIncs = 0
           /\ waitSlept = 0
           /\ remaining = duration
           /\ invocations = attempts
           /\ invocations < maxAttempts
           /\ IsRetry(LastVerdict)
           /\ (pc = "done" => IsCancellation(outcome))

C4_Witness ==
    /\ pc = "done"
    /\ hasSource
    /\ entryStopped
    /\ duration > SleepIncrement
    /\ waitIncs = 0
    /\ invocations = 1
    /\ IsCancellation(outcome)

\* ----------------------------------------------------------------- C5

\* C5: cancellation is seen only inside a wait.  The cancellation failure is
\* returned only from a wait that followed an attempt with a retry verdict
\* and attempts left; an attempt that was invoked is judged, and a terminal
\* verdict (accepted value, non-retryable error, budget used up) gives its own
\* outcome whether or not cancellation was requested before or during it.
C5_CancelOnlyInWait ==
    /\ IsCancellation(outcome)
          => /\ pc = "done"
             /\ stopped
             /\ waits >= 1
             /\ waits = invocations
             /\ invocations < maxAttempts
             /\ IsRetry(LastVerdict)
    /\ (pc = "done") => (invocations = Len(log))
    /\ (pc = "done" /\ maxAttempts >= 1) => (invocations >= 1)
    /\ (LastVerdict = "accept") => (IsSuccess(outcome, result))
    /\ (LastVerdict = "fatal") => (IsTerminalFailure(outcome, exc.what))
    /\ (pc = "done" /\ AllRetry /\ Len(log) = maxAttempts)
          => (IsExhaustion(outcome, maxAttempts))

C5_Witness ==
    /\ pc = "done"
    /\ stopped
    /\ stopPhase = "func"
    /\ log = <<"result-retry", "accept">>
    /\ invocations = 2
    /\ IsSuccess(outcome, "v1")

\* ----------------------------------------------------------------- C6

\* C6: whatever func and the two predicates do, errors they raise included,
\* retry() returns a value: success or a failure with a message; no exception
\* leaves retry().  (Errors that are no std::exception are left aside: the
\* design takes every error to have a description.)
C6_NothingPropagates ==
    (pc = "done" /\ ~(outcome.kind = "thrown" /\ outcome.what = Undescribed))
        => (outcome.kind \in {"success", "failure"})

\* ----------------------------------------------------------------- C7

\* C7: for every attempt n >= 1 and every policy, getDelay(n) is in
\* [0, min(initialDelay x multiplier^(n-1), maxDelay)], and the pre-jitter
\* delay it samples from never exceeds maxDelay.  (Both sides of the
\* comparison with the power carry the factor 10^(n-1) of the tenths.)
C7_DelayInInterval ==
    (pc = "sleepEntry")
        => /\ duration >= 0
           /\ duration * Pow(10, attempts - 1)
                 <= backoffPolicy.initialDelay * Pow(backoffPolicy.multiplier, attempts - 1)
           /\ duration <= backoffPolicy.maxDelay
           /\ currentDelay <= backoffPolicy.maxDelay

\* ----------------------------------------------------------------- C8

RECURSIVE ScaledGrowth(_, _, _, _)
\* the delay grown by the floating-point multiplier and capped at each pass,
\* after i passes, times 10^i
ScaledGrowth(delay, i, attempt, policy) ==
    IF i < attempt - 1
    THEN ScaledGrowth(Min(delay * policy.multiplier, policy.maxDelay * Pow(10, i + 1)),
                      i + 1, attempt, policy)
    ELSE delay

\* C8: the pre-jitter delay of getDelay(n) is initialDelay multiplied n-1
\* times by the floating-point multiplier, capped at maxDelay at each pass.
C8_GrowsByMultiplier ==
    (pc = "sleepEntry")
        => currentDelay * Pow(10, attempts - 1)
               = ScaledGrowth(backoffPolicy.initialDelay, 0, attempts, backoffPolicy)

\* ----------------------------------------------------------------- C9

\* C9: with maxAttempts = 1, whatever func does and whenever cancellation is
\* requested, func is invoked once, no delay is computed, no wait is made,
\* the cancellation failure is never returned, and the outcome is the one
\* the single attempt gives.
C9_SingleAttempt ==
    (maxAttempts = 1)
        => /\ invocations <= 1
           /\ delayCalls = 0
           /\ waits = 0
           /\ ~IsCancellation(outcome)
           /\ (pc = "done")
                 => /\ invocations = 1
                    /\ Len(log) = 1
                    /\ CASE log[1] = "accept" -> IsSuccess(outcome, result)
                         [] log[1] = "fatal" -> IsTerminalFailure(outcome, exc.what)
                         [] log[1] = "thrown" -> outcome.kind = "thrown"
                         [] OTHER -> IsExhaustion(outcome, 1)

C9_Witness ==
    /\ maxAttempts = 1
    /\ pc = "done"
    /\ stopped
    /\ stopPhase = "func"
    /\ log = <<"error-retry">>
    /\ invocations = 1
    /\ IsExhaustion(outcome, 1)

\* ----------------------------------------------------------------- C10

\* C10 as stated: with a token of a stop source, interruptibleSleep never
\* returns true after having slept the full duration.
C10_TrueMeansEarly ==
    (hasSource /\ pc = "done" /\ IsCancellation(outcome))
        => (waitSlept < duration)

\* C10 as amended: with a token of a stop source, interruptibleSleep returns
\* true only when cancellation has been requested (the full duration may have
\* been slept by then), and returns false only when the full duration has
\* been slept.
C10_TrueMeansRequested ==
    [][(pc = "sleepRet" /\ pc' # "sleepRet")
          => IF pc' = "done"
             THEN stopped /\ IsCancellation(outcome')
             ELSE pc' = "invoke" /\ remaining = 0 /\ waitSlept = duration]_vars

C10_Witness ==
    /\ hasSource
    /\ pc = "done"
    /\ IsCancellation(outcome)
    /\ ~entryStopped
    /\ duration > SleepIncrement
    /\ waitSlept = duration
    /\ stopPhase = "wait"

\* ----------------------------------------------------------------- C11

\* the program counters inside the loop of interruptibleSleep
InSleepLoop == pc \in {"sleepLoop", "sleepCall", "sleeping", "sleepRet"}

\* C11: with a token that has no stop source, interruptibleSleep never
\* enters its polling loop: it sleeps the whole duration in one sleep_for
\* call and is then at return false; so retry() never returns the
\* cancellation failure, and each wait it makes is slept in full.
C11_DefaultTokenSleepsInFull ==
    (~hasSource)
        => /\ ~InSleepLoop
           /\ ~IsCancellation(outcome)
           /\ (pc = "sleepFalse")
                 => /\ waitIncs = 1
                    /\ waitSlept = duration
                    /\ waits = invocations
           /\ (pc = "done") => (waits = IF invocations = 0 THEN 0 ELSE invocations - 1)

C11_Witness ==
    /\ ~hasSource
    /\ pc = "sleepFalse"
    /\ waits = 2
    /\ duration > SleepIncrement
    /\ waitSlept = duration

\* ----------------------------------------------------------------- C12

\* C12: shouldRetryExceptionPredicate is called only with errors raised by
\* the invocation of func; an error raised by shouldRetryPredicate is not
\* passed to it, and gives neither a retry nor the 'failed with exception'
\* failure.
C12_OnlyErrorsOfFunc ==
    /\ (pc = "judgeError") => (exc.from = "func")
    /\ (LastVerdict = "fatal") => (exc.from = "func")

\* ----------------------------------------------------------------- C13

\* C13: for maxAttempts >= 1, in every state func has been invoked at most
\* maxAttempts times and at most maxAttempts - 1 waits have been started.
C13_AttemptBudget ==
    (maxAttempts >= 1)
        => /\ invocations <= maxAttempts
           /\ waits <= maxAttempts - 1
           /\ delayCalls <= maxAttempts - 1

C13_Witness ==
    /\ maxAttempts = 3
    /\ invocations = 3
    /\ waits = 2
    /\ stopped
    /\ pc = "done"
    /\ log = <<"result-retry", "error-retry", "error-retry">>

\* ----------------------------------------------------------------- C14

\* C14: invocations and waits alternate, beginning with an invocation: a
\* wait is started only after an invocation, one wait lies between two
\* invocations, and none follows the attempt that ends retry().  So while
\* waiting, and when about to invoke, waits = invocations (0 = 0 before the
\* first invocation); otherwise waits = invocations - 1; a return that is not
\* the cancellation failure has waits = invocations - 1, the cancellation
\* failure has waits = invocations, its last wait being the cancelled one.
C14_Alternation ==
    /\ (pc \in {"running", "judgeResult", "judgeError"})
          => (invocations >= 1 /\ waits = invocations - 1)
    /\ (pc = "invoke" \/ pc = "sleepFalse" \/ InSleepLoop)
          => (waits = invocations /\ (waits = 0 <=> attempts = 0))
    /\ (pc \in {"loop", "getDelay", "sleepEntry"})
          => (waits = IF invocations = 0 THEN 0 ELSE invocations - 1)
    /\ (pc \in {"getDelay", "sleepEntry"}) => (invocations >= 1)
    /\ (pc = "done" /\ IsCancellation(outcome))
          => (invocations >= 1 /\ waits = invocations)
    /\ (pc = "done" /\ ~IsCancellation(outcome))
          => (waits = IF invocations = 0 THEN 0 ELSE invocations - 1)
    /\ delayCalls - waits \in {0, 1}
    /\ (delayCalls = waits + 1) <=> (pc = "sleepEntry")

C14_Witness ==
    /\ pc = "done"
    /\ IsCancellation(outcome)
    /\ invocations = 2
    /\ waits = 2
    /\ waitSlept > 0

\* ----------------------------------------------------------------- C15

\* C15: when retry() has ended, it has ended in exactly one of the four
\* terminal states: success, non-retryable failure, cancellation during a
\* wait, exhaustion of the attempts.  (Errors that are no std::exception are
\* left aside, as in C6.)
C15_FourTerminalStates ==
    (pc = "done" /\ ~(outcome.kind = "thrown" /\ outcome.what = Undescribed))
        => \/ (outcome.kind = "success" /\ LastVerdict = "accept")
           \/ (IsTerminalFailure(outcome, outcome.what) /\ LastVerdict = "fatal")
           \/ (IsCancellation(outcome) /\ IsRetry(LastVerdict))
           \/ (IsExhaustion(outcome, maxAttempts) /\ Len(log) = attempts)

\* the steps of the thread that runs retry()
RetryStep ==
    \/ Loop \/ GetDelay \/ SleepEntry \/ SleepReturnFalse \/ SleepCheck
    \/ SleepBegin \/ SleepEnd \/ SleepReturn \/ Invoke \/ OpReturns \/ OpRaises
    \/ OpRaisesOther \/ JudgeResult \/ JudgeError

\* the thread that runs retry() keeps running: func, the predicates and
\* sleep_for all return or raise
FairSpec == Spec /\ WF_vars(RetryStep)

\* the other half of C15, which holds under FairSpec: retry() ends
C15_Terminates == <>(pc = "done")

\* ----------------------------------------------------------------- C16

\* the attempt that was invoked last has been judged to its end
AttemptJudged ==
    \/ pc = "loop" /\ attempts > 0
    \/ pc = "done" /\ LastVerdict \in {"accept", "fatal"}

\* C16: in one attempt retry() calls exactly one of the two predicates:
\* shouldRetryPredicate when func returned a value, and
\* shouldRetryExceptionPredicate when func raised an error; never both, and
\* never neither.
C16_OnePredicatePerAttempt ==
    /\ Cardinality(consulted) <= 1
    /\ AttemptJudged => (Cardinality(consulted) = 1)
    /\ (LastVerdict = "accept" \/ (pc = "loop" /\ LastVerdict = "result-retry"))
          => (consulted = {"result"})
    /\ (LastVerdict = "fatal" \/ (pc = "loop" /\ LastVerdict = "error-retry"))
          => (consulted = {"error"})

\* ----------------------------------------------------------------- C17

\* C17 as stated: with a token of a stop source, once the flag is set no
\* sleep increment is begun, and at most one, the one in progress, ends
\* before the wait returns true.
C17_NoIncrementBegunAfterStop ==
    hasSource => (stopBegins = 0 /\ stopIncs <= 1)

\* C17 as amended: with a token of a stop source, once the flag is set at most
\* one sleep increment ends before the wait returns true: the one in
\* progress, or the one whose loop condition was read before the flag was
\* set and which begins after it; a loop condition read with the flag set
\* lets no increment begin.
C17_OneIncrementLatency ==
    /\ [](hasSource
            => /\ stopIncs <= 1
               /\ stopBegins <= 1
               /\ stopBegins <= stopIncs + (IF pc = "sleeping" THEN 1 ELSE 0)
               /\ (stopIncs = 1 => pc \in {"sleepLoop", "sleepRet", "done"}))
    /\ [][(pc = "sleepLoop" /\ stopped) => (pc' \in {"sleepLoop", "sleepRet"})]_vars
    /\ [][(pc = "sleepRet" /\ stopped /\ pc' # "sleepRet") => IsCancellation(outcome')]_vars

C17_Witness ==
    /\ hasSource
    /\ pc = "done"
    /\ IsCancellation(outcome)
    /\ stopBegins = 1
    /\ stopIncs = 1
    /\ remaining > 0

\* ----------------------------------------------------------------- C18

\* C18: request_stop() only ever moves the flag from false to true; a call
\* made with the flag set changes nothing; from then on the token reports
\* stop_requested() = true for ever; and a request_stop() made after retry()
\* has returned leaves what it returned as it is.
C18_FlagSetOnce ==
    [][/\ StopRequested => StopRequested'
       /\ (stopped' # stopped) => (~stopped /\ stopped' /\ hasSource)
       /\ (stopped /\ pc' = pc) => UNCHANGED vars
       /\ (pc = "done") => (pc' = "done" /\ outcome' = outcome)]_vars

C18_Witness ==
    /\ pc = "done"
    /\ stopped
    /\ stopPhase = "done"
    /\ IsSuccess(outcome, "v1")
    /\ invocations = 1

\* ----------------------------------------------------------------- C19

\* C19: with maxAttempts <= 0, func is never invoked, no predicate is
\* called, no delay is computed, no wait is made, and retry() returns the
\* exhaustion failure citing maxAttempts.
C19_NoAttempts ==
    (maxAttempts <= 0)
        => /\ invocations = 0
           /\ consulted = {}
           /\ log = <<>>
           /\ delayCalls = 0
           /\ waits = 0
           /\ pc \in {"loop", "done"}
           /\ (pc = "done") => IsExhaustion(outcome, maxAttempts)

C19_Witness ==
    /\ maxAttempts = 0
    /\ pc = "done"
    /\ stopped
    /\ invocations = 0
    /\ IsExhaustion(outcome, 0)

\* ----------------------------------------------------------------- C20

\* the least number of increments of SleepIncrement that cover d
CeilIncrements(d) == (d + SleepIncrement - 1) \div SleepIncrement

\* C20: inside interruptibleSleep with a token of a stop source and a
\* duration D >= 0: 0 <= remaining <= D, and the time slept plus remaining
\* is D; every increment sleeps min(10, remaining), so all increments but the
\* last are whole; and when cancellation is not requested, the loop ends
\* after exactly ceil(D/10) increments with D slept, and false is returned.
C20_SleepAccounting ==
    /\ []((hasSource /\ (InSleepLoop \/ IsCancellation(outcome)))
            => /\ duration >= 0
               /\ 0 <= remaining
               /\ remaining <= duration
               /\ waitSlept + remaining = duration
               /\ waitIncs = CeilIncrements(waitSlept) + (IF pc = "sleeping" THEN 1 ELSE 0)
               /\ (remaining > 0) => (waitSlept = SleepIncrement * CeilIncrements(waitSlept))
               /\ (pc = "sleepRet" /\ ~stopped)
                     => /\ remaining = 0
                        /\ waitSlept = duration
                        /\ waitIncs = CeilIncrements(duration))
    /\ [][(pc = "sleepRet" /\ ~stopped /\ pc' # "sleepRet") => (pc' = "invoke")]_vars

C20_Witness ==
    /\ hasSource
    /\ pc = "sleepRet"
    /\ ~stopped
    /\ duration > 2 * SleepIncrement
    /\ waitSlept = duration
    /\ waitIncs = 3

====
